---- MODULE Spec2Model ----
(***************************************************************************)
(* Get/Set property nodes (nodes/object_nodes/getsetprop_mk2.py).          *)
(*                                                                         *)
(* Python strings are sequences of one-character strings, so that          *)
(* startswith, replace and the expression parser work on characters.       *)
(* Python values are records with a type tag (PyVal below).  The host's    *)
(* data (bpy) is a small tree of structs and collections whose leaves are  *)
(* typed property values kept in the variable heap.                        *)
(***************************************************************************)
EXTENDS Integers, Sequences, FiniteSets, TLC

VARIABLES
    variant,     \* "get" (SvGetPropNodeMK2) or "set" (SvSetPropNodeMK2)
    prop_name,   \* the node's prop_name StringProperty
    bad_prop,    \* the node's bad_prop BoolProperty
    sockets,     \* self.outputs of the get node, self.inputs of the set node
    heap,        \* values of the host's properties, by property id
    last_op,     \* the handler that ran last: verify_prop or process
    log,         \* what the last handler did, in order
    raised,      \* the exception that left the last handler, or "none"
    last_data,   \* what sv_get returned to the last handler, if it called it
    out_data,    \* what the get node last published with sv_set
    edited,      \* whether prop_name was ever edited
    last_class,  \* socket type of the last edit that was classified
    alias_in,    \* apply_alias: its argument
    alias_out,   \* apply_alias: its outcome
    ast_in,      \* parse_to_path: its argument
    path_out     \* parse_to_path: its outcome

nodeVars == <<variant, prop_name, bad_prop, sockets, heap, last_op, log, raised,
              last_data, out_data, edited, last_class>>
aliasVars == <<alias_in, alias_out>>
parseVars == <<ast_in, path_out>>
vars == <<nodeVars, aliasVars, parseVars>>

(***************************************************************************)
(* Bounds                                                                  *)
(***************************************************************************)
\* apply_alias is tried on every concatenation of at most MaxPieces pieces
MaxPieces == 2
\* parse_to_path is tried on every expression nested at most MaxDepth deep
MaxDepth == 3

(***************************************************************************)
(* str methods                                                             *)
(***************************************************************************)
startswith(s, prefix) ==
    /\ Len(prefix) <= Len(s)
    /\ SubSeq(s, 1, Len(prefix)) = prefix

endswith(s, suffix) ==
    /\ Len(suffix) <= Len(s)
    /\ SubSeq(s, Len(s) - Len(suffix) + 1, Len(s)) = suffix

\* the positions at which old occurs in s
occurrences(s, old) ==
    {i \in 1..(Len(s) - Len(old) + 1) : SubSeq(s, i, i + Len(old) - 1) = old}

\* s.replace(old, new, 1): the leftmost occurrence of old is replaced
replace_first(s, old, new) ==
    LET occ == occurrences(s, old) IN
    IF occ = {} THEN s
    ELSE LET i == CHOOSE k \in occ : \A j \in occ : k <= j IN
         SubSeq(s, 1, i - 1) \o new \o SubSeq(s, i + Len(old), Len(s))

\* s.replace(old, new): every occurrence of old, left to right
RECURSIVE replace_all(_, _, _)
replace_all(s, old, new) ==
    LET occ == occurrences(s, old) IN
    IF occ = {} \/ old = << >> THEN s
    ELSE LET i == CHOOSE k \in occ : \A j \in occ : k <= j IN
         SubSeq(s, 1, i - 1) \o new
             \o replace_all(SubSeq(s, i + Len(old), Len(s)), old, new)

(***************************************************************************)
(* aliases, in the order the dict is iterated                              *)
(***************************************************************************)
aliases == <<
    [alias |-> <<"c">>,      expanded |-> <<"b","p","y",".","c","o","n","t","e","x","t">>],
    [alias |-> <<"C">>,      expanded |-> <<"b","p","y",".","c","o","n","t","e","x","t">>],
    [alias |-> <<"s","c","e","n","e">>,  expanded |-> <<"b","p","y",".","c","o","n","t","e","x","t",".","s","c","e","n","e">>],
    [alias |-> <<"d","a","t","a">>,   expanded |-> <<"b","p","y",".","d","a","t","a">>],
    [alias |-> <<"D">>,      expanded |-> <<"b","p","y",".","d","a","t","a">>],
    [alias |-> <<"o","b","j","s">>,   expanded |-> <<"b","p","y",".","d","a","t","a",".","o","b","j","e","c","t","s">>],
    [alias |-> <<"m","a","t","s">>,   expanded |-> <<"b","p","y",".","d","a","t","a",".","m","a","t","e","r","i","a","l","s">>],
    [alias |-> <<"M">>,      expanded |-> <<"b","p","y",".","d","a","t","a",".","m","a","t","e","r","i","a","l","s">>],
    [alias |-> <<"m","e","s","h","e","s">>, expanded |-> <<"b","p","y",".","d","a","t","a",".","m","e","s","h","e","s">>],
    [alias |-> <<"t","e","x","t","s">>,  expanded |-> <<"b","p","y",".","d","a","t","a",".","t","e","x","t","s">>] >>

bpy_dot == <<"b","p","y",".">>

\* outcome of a call: exc is "none" and val the value returned, or exc is the
\* exception raised
\* (none marks a call that returned None)
Returned(v) == [exc |-> "none", none |-> FALSE, val |-> v]
ReturnedNone == [exc |-> "none", none |-> TRUE, val |-> << >>]
Raised(e) == [exc |-> e, none |-> FALSE, val |-> << >>]

\* the loop of apply_alias with str.replace called without its count
apply_alias_replace_all(eval_str) ==
    IF startswith(eval_str, bpy_dot) THEN Returned(eval_str)
    ELSE LET hits == {i \in 1..Len(aliases) : startswith(eval_str, aliases[i].alias)}
             s == IF hits = {} THEN eval_str
                  ELSE LET i == CHOOSE k \in hits : \A j \in hits : k <= j IN
                       replace_all(eval_str, aliases[i].alias, aliases[i].expanded)
         IN IF startswith(s, bpy_dot) THEN Returned(s) ELSE Raised("NameError")

\* apply_alias without the final check of the root
apply_alias_unchecked(eval_str) ==
    IF startswith(eval_str, bpy_dot) THEN Returned(eval_str)
    ELSE LET hits == {i \in 1..Len(aliases) : startswith(eval_str, aliases[i].alias)}
         IN IF hits = {} THEN Returned(eval_str)
            ELSE LET i == CHOOSE k \in hits : \A j \in hits : k <= j IN
                 Returned(replace_first(eval_str, aliases[i].alias, aliases[i].expanded))

\* apply_alias: the first alias (in dict order) the string starts with is
\* replaced once, then the loop breaks
apply_alias(eval_str) ==
    IF startswith(eval_str, bpy_dot) THEN Returned(eval_str)
    ELSE LET hits == {i \in 1..Len(aliases) : startswith(eval_str, aliases[i].alias)}
             s == IF hits = {} THEN eval_str
                  ELSE LET i == CHOOSE k \in hits : \A j \in hits : k <= j IN
                       replace_first(eval_str, aliases[i].alias, aliases[i].expanded)
         IN IF startswith(s, bpy_dot) THEN Returned(s) ELSE Raised("NameError")

(***************************************************************************)
(* ast: the nodes ast.parse builds for a path expression (Python 3.7, the  *)
(* interpreter of the host at the time: a subscript's slice is an          *)
(* ast.Index wrapping the index expression, or an ast.Slice)               *)
(***************************************************************************)
Name(id) == [t |-> "Name", id |-> id]
Attribute(value, attr) == [t |-> "Attribute", value |-> value, attr |-> attr]
Subscript(value, slice) == [t |-> "Subscript", value |-> value, slice |-> slice]
Call(func) == [t |-> "Call", func |-> func]
Index(value) == [t |-> "Index", value |-> value]
Slice == [t |-> "Slice"]
Num(n) == [t |-> "Num", n |-> n]
Str(s) == [t |-> "Str", s |-> s]

Digits == <<"0", "1", "2", "3", "4", "5", "6", "7", "8", "9">>
IsDigit(c) == \E i \in 1..Len(Digits) : Digits[i] = c
DigitVal(c) == (CHOOSE i \in 1..Len(Digits) : Digits[i] = c) - 1
Letters == {"a", "b", "c", "d", "e", "f", "g", "h", "i", "j", "k", "l", "m",
            "n", "o", "p", "q", "r", "s", "t", "u", "v", "w", "x", "y", "z",
            "A", "B", "C", "D", "E", "F", "G", "H", "I", "J", "K", "L", "M",
            "N", "O", "P", "Q", "R", "S", "T", "U", "V", "W", "X", "Y", "Z", "_"}
IsIdentChar(c) == c \in Letters \/ IsDigit(c)
IsIdentifier(s) ==
    /\ Len(s) > 0
    /\ s[1] \in Letters
    /\ \A i \in 1..Len(s) : IsIdentChar(s[i])
IsNumber(s) == Len(s) > 0 /\ \A i \in 1..Len(s) : IsDigit(s[i])

RECURSIVE NumberVal(_)
NumberVal(s) ==
    IF Len(s) = 0 THEN 0
    ELSE 10 * NumberVal(SubSeq(s, 1, Len(s) - 1)) + DigitVal(s[Len(s)])

\* the first position from i on whose character is not part of an identifier
RECURSIVE IdentEnd(_, _)
IdentEnd(s, i) ==
    IF i <= Len(s) /\ IsIdentChar(s[i]) THEN IdentEnd(s, i + 1) ELSE i

\* what stands between the brackets of a subscript
parse_slice(inner) ==
    LET colons == {i \in 1..Len(inner) : inner[i] = ":"} IN
    IF IsNumber(inner) THEN Returned(Index(Num(NumberVal(inner))))
    ELSE IF /\ Len(inner) >= 2
            /\ inner[1] = "\"" /\ inner[Len(inner)] = "\""
            /\ \A i \in 2..(Len(inner) - 1) : inner[i] # "\""
         THEN Returned(Index(Str(SubSeq(inner, 2, Len(inner) - 1))))
    ELSE IF IsIdentifier(inner) THEN Returned(Index(Name(inner)))
    ELSE IF /\ Cardinality(colons) = 1
            /\ \A i \in 1..Len(inner) : inner[i] = ":" \/ IsDigit(inner[i])
         THEN Returned(Slice)
    ELSE Raised("SyntaxError")

\* the trailers of a primary expression: .attr, [index], ()
RECURSIVE parse_trailers(_, _, _)
parse_trailers(s, i, node) ==
    IF i > Len(s) THEN Returned(node)
    ELSE IF s[i] = "." THEN
        LET j == IdentEnd(s, i + 1) IN
        IF j > i + 1 /\ s[i + 1] \in Letters
        THEN parse_trailers(s, j, Attribute(node, SubSeq(s, i + 1, j - 1)))
        ELSE Raised("SyntaxError")
    ELSE IF s[i] = "[" THEN
        LET close == {k \in (i + 1)..Len(s) : s[k] = "]"} IN
        IF close = {} THEN Raised("SyntaxError")
        ELSE LET k == CHOOSE c \in close : \A d \in close : c <= d
                 sl == parse_slice(SubSeq(s, i + 1, k - 1))
             IN IF sl.exc # "none" THEN sl
                ELSE parse_trailers(s, k + 1, Subscript(node, sl.val))
    ELSE IF s[i] = "(" THEN
        IF i + 1 <= Len(s) /\ s[i + 1] = ")"
        THEN parse_trailers(s, i + 2, Call(node))
        ELSE Raised("SyntaxError")
    ELSE Raised("SyntaxError")

\* ast.parse(eval_str).body[0].value, for the expressions of the path
\* language and its neighbours: a name followed by trailers, no blanks
ast_parse(eval_str) ==
    LET j == IdentEnd(eval_str, 1) IN
    IF j > 1 /\ eval_str[1] \in Letters
    THEN parse_trailers(eval_str, j, Name(SubSeq(eval_str, 1, j - 1)))
    ELSE Raised("SyntaxError")

(***************************************************************************)
(* parse_to_path                                                           *)
(***************************************************************************)
\* one step of a path; lit tells whether value is a str or an int
Step(op, value, lit) == [lit |-> lit, op |-> op, value |-> value]

\* the outcome of  parse_to_path(p.value) + [step]
plus_step(head, step) ==
    IF head.exc # "none" THEN head
    ELSE IF head.none THEN Raised("TypeError")
    ELSE Returned(Append(head.val, step))

\* parse_to_path: p.slice.value of an ast.Slice raises AttributeError; a
\* subscript whose index is neither Num nor Str falls out of the if chain and
\* the function returns None
RECURSIVE parse_to_path(_)
parse_to_path(p) ==
    IF p.t = "Attribute" THEN
        plus_step(parse_to_path(p.value), Step("attr", p.attr, "str"))
    ELSE IF p.t = "Subscript" THEN
        IF p.slice.t # "Index" THEN Raised("AttributeError")
        ELSE IF p.slice.value.t = "Num" THEN
            plus_step(parse_to_path(p.value), Step("key", p.slice.value.n, "int"))
        ELSE IF p.slice.value.t = "Str" THEN
            plus_step(parse_to_path(p.value), Step("key", p.slice.value.s, "str"))
        ELSE ReturnedNone
    ELSE IF p.t = "Name" THEN Returned(<<Step("name", p.id, "str")>>)
    ELSE Raised("NameError")

(***************************************************************************)
(* Python values.  type is the exact runtime type; n a number (int, float, *)
(* bool); comps the components of a tuple, Vector, Color or                *)
(* bpy_prop_array; rows the rows of a Matrix; elems the items of a list;   *)
(* s the characters of a str, or what path_from_id() returns for a         *)
(* bpy_prop_array; of the type of a bpy_prop_array's items.                *)
(***************************************************************************)
PyVal(type, n, comps, rows, elems, s, of) ==
    [type |-> type, n |-> n, comps |-> comps, rows |-> rows, elems |-> elems,
     s |-> s, of |-> of]
PyInt(n) == PyVal("int", n, << >>, << >>, << >>, << >>, "")
PyFloat(n) == PyVal("float", n, << >>, << >>, << >>, << >>, "")
PyBool(n) == PyVal("bool", n, << >>, << >>, << >>, << >>, "")
PyStr(s) == PyVal("str", 0, << >>, << >>, << >>, s, "")
PyTuple(comps) == PyVal("tuple", 0, comps, << >>, << >>, << >>, "")
PyList(elems) == PyVal("list", 0, << >>, << >>, elems, << >>, "")
Vector(comps) == PyVal("Vector", 0, comps, << >>, << >>, << >>, "")
Color(comps) == PyVal("Color", 0, comps, << >>, << >>, << >>, "")
Matrix(rows) == PyVal("Matrix", 0, << >>, rows, << >>, << >>, "")
PropArray(comps, path, of) == PyVal("bpy_prop_array", 0, comps, << >>, << >>, path, of)
HostObject(type) == PyVal(type, 0, << >>, << >>, << >>, << >>, "")

\* isinstance(v, (int, float)): bool is a subclass of int
IsPyNumber(v) == v.type \in {"int", "float", "bool"}
HasComps(v) == v.type \in {"tuple", "Vector", "Color", "bpy_prop_array"}

\* v[0]
py_getitem0(v) ==
    IF v.type = "list" THEN
        IF v.elems = << >> THEN Raised("IndexError") ELSE Returned(v.elems[1])
    ELSE IF HasComps(v) THEN
        IF v.comps = << >> THEN Raised("IndexError")
        ELSE Returned(IF v.type = "bpy_prop_array" /\ v.of = "bool"
                      THEN PyBool(v.comps[1]) ELSE PyFloat(v.comps[1]))
    ELSE IF v.type = "Matrix" THEN Returned(Vector(v.rows[1]))
    ELSE IF v.type = "str" THEN
        IF v.s = << >> THEN Raised("IndexError") ELSE Returned(PyStr(<<v.s[1]>>))
    ELSE Raised("TypeError")

\* data[0][0]
first_element(data) ==
    LET d0 == py_getitem0(data) IN
    IF d0.exc # "none" THEN d0 ELSE py_getitem0(d0.val)

\* v read as a sequence of numbers (mathutils_array_parse)
as_floats(v) ==
    IF HasComps(v) THEN Returned(v.comps)
    ELSE IF v.type = "list" THEN
        IF \A i \in 1..Len(v.elems) : IsPyNumber(v.elems[i])
        THEN Returned([i \in 1..Len(v.elems) |-> v.elems[i].n])
        ELSE Raised("TypeError")
    ELSE Raised("TypeError")

\* v read as a sequence of rows of numbers
as_rows(v) ==
    IF v.type = "Matrix" THEN Returned(v.rows)
    ELSE IF v.type = "list" THEN
        IF \A i \in 1..Len(v.elems) : as_floats(v.elems[i]).exc = "none"
        THEN Returned([i \in 1..Len(v.elems) |-> as_floats(v.elems[i]).val])
        ELSE Raised("TypeError")
    ELSE Raised("TypeError")

(***************************************************************************)
(* The host's data.  Structs and collections are fixed; the values of the  *)
(* properties at the leaves are in heap.  An object reached by a path is a *)
(* reference: the id of a struct, collection or property, and for a        *)
(* component of a property (location[0], matrix_world[1][2]) the indexes   *)
(* that select it; mathutils and bpy hand out such components as views     *)
(* that write through.                                                     *)
(***************************************************************************)
HostAttrs ==
    [bpy     |-> (<<"c","o","n","t","e","x","t">> :> "context") @@ (<<"d","a","t","a">> :> "data"),
     context |-> (<<"s","c","e","n","e">> :> "scene"),
     scene   |-> (<<"f","r","a","m","e","_","c","u","r","r","e","n","t">> :> "frame_current"),
     data    |-> (<<"o","b","j","e","c","t","s">> :> "objects") @@ (<<"m","a","t","e","r","i","a","l","s">> :> "materials")
                 @@ (<<"m","e","s","h","e","s">> :> "meshes") @@ (<<"t","e","x","t","s">> :> "texts"),
     Cube    |-> (<<"l","o","c","a","t","i","o","n">> :> "location") @@ (<<"c","o","l","o","r">> :> "color")
                 @@ (<<"m","a","t","r","i","x","_","w","o","r","l","d">> :> "matrix_world") @@ (<<"n","a","m","e">> :> "name")
                 @@ (<<"h","i","d","e","_","r","e","n","d","e","r">> :> "hide_render")
                 @@ (<<"l","o","c","k","_","l","o","c","a","t","i","o","n">> :> "lock_location"),
     Mat     |-> (<<"s","p","e","c","u","l","a","r","_","c","o","l","o","r">> :> "specular_color")]

HostKeys ==
    [objects   |-> (<<"C","u","b","e">> :> "Cube"),
     materials |-> (<<"M","a","t">> :> "Mat"),
     meshes    |-> << >>,
     texts     |-> << >>]

HostIndex ==
    [objects   |-> <<"Cube">>,
     materials |-> <<"Mat">>,
     meshes    |-> << >>,
     texts     |-> << >>]

Structs == DOMAIN HostAttrs
Collections == DOMAIN HostKeys
Properties == {"frame_current", "location", "color", "matrix_world", "name",
               "hide_render", "lock_location", "specular_color"}

Identity4 == <<<<1, 0, 0, 0>>, <<0, 1, 0, 0>>, <<0, 0, 1, 0>>, <<0, 0, 0, 1>>>>
Translate4 == <<<<1, 0, 0, 2>>, <<0, 1, 0, 3>>, <<0, 0, 1, 4>>, <<0, 0, 0, 1>>>>

InitHeap ==
    [frame_current  |-> PyInt(1),
     location       |-> Vector(<<0, 0, 0>>),
     color          |-> PropArray(<<1, 1, 1, 1>>, <<"c","o","l","o","r">>, "float"),
     matrix_world   |-> Matrix(Identity4),
     name           |-> PyStr(<<"C","u","b","e">>),
     hide_render    |-> PyBool(0),
     lock_location  |-> PropArray(<<0, 0, 0>>, <<"l","o","c","k","_","l","o","c","a","t","i","o","n">>, "bool"),
     specular_color |-> Color(<<1, 1, 1>>)]

Ref(id, sel) == [id |-> id, sel |-> sel]

\* the item of v at 0-based index i, for a v that has items
item_at(v, i) ==
    IF v.type = "Matrix" THEN Vector(v.rows[i + 1])
    ELSE IF v.type = "str" THEN PyStr(<<v.s[i + 1]>>)
    ELSE IF v.type = "bpy_prop_array" /\ v.of = "bool" THEN PyBool(v.comps[i + 1])
    ELSE PyFloat(v.comps[i + 1])

item_count(v) ==
    IF v.type = "Matrix" THEN Len(v.rows)
    ELSE IF v.type = "str" THEN Len(v.s)
    ELSE IF HasComps(v) THEN Len(v.comps)
    ELSE -1

RECURSIVE descend(_, _)
descend(v, sel) ==
    IF sel = << >> THEN v ELSE descend(item_at(v, sel[1]), Tail(sel))

\* the Python value a reference stands for
value_of(h, ref) ==
    IF ref.id \in Properties THEN descend(h[ref.id], ref.sel)
    ELSE IF ref.id \in Collections THEN HostObject("bpy_prop_collection")
    ELSE IF ref.id = "bpy" THEN HostObject("module")
    ELSE HostObject("bpy_struct")

\* getattr(curr_object, value)
host_getattr(h, ref, value) ==
    IF ref.id \in Structs /\ value \in DOMAIN HostAttrs[ref.id]
    THEN Returned(Ref(HostAttrs[ref.id][value], << >>))
    ELSE Raised("AttributeError")

\* curr_object[value]
host_getitem(h, ref, step) ==
    IF ref.id \in Collections THEN
        IF step.lit = "str" THEN
            IF step.value \in DOMAIN HostKeys[ref.id]
            THEN Returned(Ref(HostKeys[ref.id][step.value], << >>))
            ELSE Raised("KeyError")
        ELSE IF step.value < Len(HostIndex[ref.id])
             THEN Returned(Ref(HostIndex[ref.id][step.value + 1], << >>))
             ELSE Raised("IndexError")
    ELSE IF ref.id \in Structs THEN
        IF ref.id # "bpy" /\ step.lit = "str" THEN Raised("KeyError")
        ELSE Raised("TypeError")
    ELSE LET v == value_of(h, ref) IN
        IF item_count(v) < 0 \/ step.lit = "str" THEN Raised("TypeError")
        ELSE IF step.value < item_count(v)
             THEN Returned(Ref(ref.id, Append(ref.sel, step.value)))
             ELSE Raised("IndexError")

RECURSIVE walk(_, _, _)
walk(h, ref, steps) ==
    IF steps = << >> THEN Returned(ref)
    ELSE LET st == steps[1]
             nxt == IF st.op = "attr" THEN host_getattr(h, ref, st.value)
                    ELSE IF st.op = "key" THEN host_getitem(h, ref, st)
                    ELSE Returned(ref)
         IN IF nxt.exc # "none" THEN nxt ELSE walk(h, nxt.val, Tail(steps))

\* get_object.  path is the outcome of parse_to_path, which may be None.  Of
\* the module's globals only bpy is a root a path can name: apply_alias lets
\* through only strings that start with "bpy."
get_object(h, path) ==
    IF path.none \/ path.val = << >> THEN Raised("TypeError")
    ELSE IF path.val[1].value # <<"b","p","y">> THEN Raised("KeyError")
    ELSE walk(h, Ref("bpy", << >>), Tail(path.val))

\* the strings typed into prop_name
PathInputs == {
    << >>,
    <<"o","b","j","s","[","\"","C","u","b","e","\"">>,
    <<"o","b","j","s","[","i","]">>,
    <<"o","b","j","s","[","\"","N","o","p","e","\"","]",".","l","o","c","a","t","i","o","n">>,
    <<"o","b","j","s","[","\"","C","u","b","e","\"","]",".","l","o","c","a","t","i","o","n",".","c","o","p","y","(",")">>,
    <<"o","b","j","s","[","\"","C","u","b","e","\"","]">>,
    <<"o","b","j","s","[","\"","C","u","b","e","\"","]",".","l","o","c","a","t","i","o","n">>,
    <<"o","b","j","s","[","\"","C","u","b","e","\"","]",".","l","o","c","a","t","i","o","n","[","0","]">>,
    <<"b","p","y",".","d","a","t","a",".","o","b","j","e","c","t","s","[","0","]",".","c","o","l","o","r">>,
    <<"o","b","j","s","[","\"","C","u","b","e","\"","]",".","m","a","t","r","i","x","_","w","o","r","l","d">>,
    <<"o","b","j","s","[","\"","C","u","b","e","\"","]",".","h","i","d","e","_","r","e","n","d","e","r">>,
    <<"D",".","o","b","j","e","c","t","s","[","\"","C","u","b","e","\"","]",".","l","o","c","k","_","l","o","c","a","t","i","o","n">>,
    <<"m","a","t","s","[","\"","M","a","t","\"","]",".","s","p","e","c","u","l","a","r","_","c","o","l","o","r">>,
    <<"s","c","e","n","e",".","f","r","a","m","e","_","c","u","r","r","e","n","t">> }

\* the rest of the three lines that turn a string into a path, after
\* apply_alias: ast.parse, then parse_to_path
path_from_ast(ast_path) ==
    IF ast_path.exc # "none" THEN ast_path ELSE parse_to_path(ast_path.val)

path_from_alias(eval_str) ==
    IF eval_str.exc # "none" THEN eval_str
    ELSE path_from_ast(ast_parse(eval_str.val))

path_from_string(name) == path_from_alias(apply_alias(name))

\* path_from_string of the strings above, computed once
PathCache == [name \in PathInputs |-> path_from_string(name)] @@ << >>

path_of(name) ==
    IF name \in PathInputs THEN PathCache[name] ELSE path_from_string(name)

resolve(h, path) ==
    IF path.exc # "none" THEN path ELSE get_object(h, path)

\* the property obj of SvPropNodeMixin: a reference, or the exception
obj(h, name) == resolve(h, path_of(name))

\* the value of a resolved self.obj (the handlers below read it only after
\* self.obj has succeeded)
resolved_value(h, o) ==
    IF o.exc # "none" THEN HostObject("NoneType") ELSE value_of(h, o.val)

obj_value(h, name) == resolved_value(h, obj(h, name))

(***************************************************************************)
(* Classification                                                          *)
(***************************************************************************)
NoneType == "None"

\* the dict types, keyed by exact type
types ==
    [int        |-> "SvStringsSocket",
     float      |-> "SvStringsSocket",
     str        |-> "SvStringsSocket",
     Vector     |-> "SvVerticesSocket",
     Color      |-> "SvColorSocket",
     Matrix     |-> "SvMatrixSocket",
     Euler      |-> "SvMatrixSocket",
     Quaternion |-> "SvQuaternionSocket"]

is_probably_color(item) ==
    item.type = "bpy_prop_array" /\ endswith(item.s, <<"c","o","l","o","r">>)

\* type_assesment with a socket type for every object
type_assesment_default(item) ==
    IF item.type \in DOMAIN types THEN types[item.type]
    ELSE IF is_probably_color(item) THEN "SvColorSocket"
    ELSE "SvStringsSocket"

\* type_assesment, for item = self.obj
type_assesment(item) ==
    IF item.type \in DOMAIN types THEN types[item.type]
    ELSE IF is_probably_color(item) THEN "SvColorSocket"
    ELSE NoneType

\* prop_assesment, for item = self.obj
prop_assesment(item) ==
    IF item.type = "float" THEN "float_prop"
    ELSE IF item.type = "int" THEN "int_prop"
    ELSE IF item.type = "bpy_prop_array" THEN "color_prop"
    ELSE ""

(***************************************************************************)
(* Conversions.  The host's data holds no Euler and no Quaternion: their   *)
(* conversions are rotations, which these integers do not express.         *)
(***************************************************************************)
Nested(item) == PyList(<<PyList(<<item>>)>>)

wrap_output_data(tvar) ==
    IF tvar.type = "Vector" THEN Returned(Nested(PyTuple(tvar.comps)))
    ELSE IF tvar.type = "Color" THEN Returned(Nested(Color(tvar.comps)))
    ELSE IF is_probably_color(tvar) THEN
        IF Len(tvar.comps) < 3 THEN Raised("ValueError")
        ELSE Returned(Nested(Color(SubSeq(tvar.comps, 1, 3))))
    ELSE IF tvar.type = "Matrix" THEN Returned(Nested(Matrix(tvar.rows)))
    ELSE IF tvar.type = "list" THEN Returned(PyList(<<tvar>>))
    ELSE IF IsPyNumber(tvar) THEN Returned(Nested(tvar))
    ELSE Returned(tvar)

\* target[:] = c, for the numbers c
set_comps(target, c) ==
    IF c.exc # "none" THEN c
    ELSE IF Len(c.val) # Len(target.comps) THEN Raised("ValueError")
    ELSE Returned([target EXCEPT !.comps = c.val])

\* target[:] = r, for the rows r
set_rows(target, r) ==
    IF r.exc # "none" THEN r
    ELSE IF Len(r.val) # Len(target.rows) THEN Raised("ValueError")
    ELSE IF \E i \in 1..Len(r.val) : Len(r.val[i]) # Len(target.rows[i])
         THEN Raised("ValueError")
    ELSE Returned([target EXCEPT !.rows = r.val])

\* obj[:] = value for a Vector or Color; value is the outcome of data[0][0]
assign_comps(target, value) ==
    IF value.exc # "none" THEN value ELSE set_comps(target, as_floats(value.val))

\* the number of items of a sequence, -1 for what is none
sequence_len(v) ==
    IF v.type = "list" THEN Len(v.elems) ELSE item_count(v)

\* obj[:] = mat for a Matrix; mat is the outcome of data[0]
assign_rows(target, mat) ==
    IF mat.exc # "none" THEN mat
    ELSE IF sequence_len(mat.val) < 0 THEN Raised("TypeError")
    ELSE IF sequence_len(mat.val) # Len(target.rows) THEN Raised("ValueError")
    ELSE set_rows(target, as_rows(mat.val))

\* a branch whose only effect can be the exception of data[0][0]
only_evaluated(value, then) ==
    IF value.exc # "none" THEN value ELSE then

\* assign_data: the object as it is after the call, or the exception.  For a
\* number  obj = data[0][0]  rebinds the local name only.  The last branch
\* slice-assigns to an object that has no item assignment (str, struct,
\* collection).
assign_data(target, data) ==
    IF IsPyNumber(target)
    THEN only_evaluated(first_element(data), Returned(target))
    ELSE IF target.type \in {"Vector", "Color"}
    THEN assign_comps(target, first_element(data))
    ELSE IF target.type = "Matrix"
    THEN assign_rows(target, py_getitem0(data))
    ELSE only_evaluated(first_element(data), Raised("TypeError"))

(***************************************************************************)
(* Writes to the host's properties                                         *)
(***************************************************************************)
\* the value of a property with the item selected by sel replaced
store_at(v, sel, new) ==
    IF sel = << >> THEN new
    ELSE IF v.type = "Matrix" THEN
        IF Len(sel) = 1 THEN [v EXCEPT !.rows[sel[1] + 1] = new.comps]
        ELSE [v EXCEPT !.rows[sel[1] + 1][sel[2] + 1] = new.n]
    ELSE [v EXCEPT !.comps[sel[1] + 1] = new.n]

store(h, ref, new) == [h EXCEPT ![ref.id] = store_at(h[ref.id], ref.sel, new)]

\* the host assigns the numbers c to an array property
coerce_array(current, c) ==
    IF c.exc # "none" THEN c
    ELSE IF Len(c.val) # Len(current.comps) THEN Raised("ValueError")
    ELSE IF current.of = "bool" /\ \E i \in 1..Len(c.val) : c.val[i] \notin {0, 1}
         THEN Raised("TypeError")
    ELSE Returned([current EXCEPT !.comps = c.val])

\* what the host makes of value when it is assigned to a property that holds
\* current: the property keeps its type, a value of another kind is refused
coerce(current, value) ==
    IF current.type = "int" THEN
        IF value.type \in {"int", "bool"} THEN Returned(PyInt(value.n))
        ELSE Raised("TypeError")
    ELSE IF current.type = "float" THEN
        IF IsPyNumber(value) THEN Returned(PyFloat(value.n)) ELSE Raised("TypeError")
    ELSE IF current.type = "bool" THEN
        IF value.type \in {"int", "bool"} /\ value.n \in {0, 1}
        THEN Returned(PyBool(value.n)) ELSE Raised("TypeError")
    ELSE IF current.type = "bpy_prop_array" THEN coerce_array(current, as_floats(value))
    ELSE Raised("TypeError")

\* the heap once new is stored at target, if the host accepted it
store_coerced(h, target, new) ==
    IF new.exc # "none" THEN new ELSE Returned(store(h, target, new.val))

host_assign(h, target, element) ==
    store_coerced(h, target, coerce(value_of(h, target), element))

\* setattr(parent, value, element): the heap after it, or the exception
host_setattr(h, parent, value, element) ==
    host_assign(h, Ref(HostAttrs[parent.id][value], << >>), element)

\* parent[value] = element
host_setitem(h, parent, value, element) ==
    host_assign(h, Ref(parent.id, Append(parent.sel, value)), element)

(***************************************************************************)
(* Sockets                                                                 *)
(***************************************************************************)
\* sockets.new(s_type, name)
new_socket(s_type, name) ==
    [bl_idname |-> s_type, name |-> name, prop_name |-> "", use_prop |-> FALSE]

\* socket.replace_socket(s_type): a new socket of that type with the old
\* one's name, in the old one's place
replace_socket(socket, s_type) == new_socket(s_type, socket.name)

\* the if/elif of the get node's execute_inside_throttle without the test of
\* outputs
configure_outputs_new(s_type, outputs) ==
    IF s_type # NoneType THEN Append(outputs, new_socket(s_type, "Data"))
    ELSE outputs

\* the if/elif of the get node's execute_inside_throttle
configure_outputs(s_type, outputs) ==
    IF s_type # NoneType /\ outputs # << >>
    THEN [outputs EXCEPT ![1] = replace_socket(outputs[1], s_type)]
    ELSE IF s_type # NoneType THEN Append(outputs, new_socket(s_type, "Data"))
    ELSE outputs

\* SvGetPropNodeMK2.execute_inside_throttle: the outputs after it
execute_inside_throttle_get(h, name, outputs) ==
    configure_outputs(type_assesment(obj_value(h, name)), outputs)

\* the if/elif of the set node's execute_inside_throttle
configure_inputs(s_type, p_name, inputs) ==
    IF inputs # << >> /\ s_type # NoneType
    THEN [inputs EXCEPT ![1] =
              [replace_socket(inputs[1], s_type) EXCEPT !.prop_name = p_name]]
    ELSE IF s_type # NoneType
    THEN Append(inputs, [new_socket(s_type, "Data") EXCEPT !.prop_name = p_name])
    ELSE inputs

\* its last if
set_use_prop(s_type, inputs) ==
    IF s_type = "SvVerticesSocket" THEN [inputs EXCEPT ![1].use_prop = TRUE]
    ELSE inputs

configure_and_use(s_type, p_name, inputs) ==
    set_use_prop(s_type, configure_inputs(s_type, p_name, inputs))

\* SvSetPropNodeMK2.execute_inside_throttle: the inputs after it
execute_inside_throttle_set(h, name, inputs) ==
    configure_and_use(type_assesment(obj_value(h, name)),
                      prop_assesment(obj_value(h, name)), inputs)

execute_inside_throttle(kind, h, name, socks) ==
    IF kind = "get" THEN execute_inside_throttle_get(h, name, socks)
    ELSE execute_inside_throttle_set(h, name, socks)

(***************************************************************************)
(* Handlers.  Each is the whole handler: what it leaves in the node and in *)
(* the host's data, what it did (log) and the exception that left it.      *)
(***************************************************************************)
Reconfigured == <<"throttle_enter", "execute_inside_throttle", "throttle_exit",
                  "updateNode">>

\* verify_prop with updateNode called inside the with block
verify_prop_update_inside(kind, h, socks, name) ==
    IF obj(h, name).exc # "none"
    THEN [bad_prop |-> TRUE, sockets |-> socks, log |-> <<"print_exc">>]
    ELSE [bad_prop |-> FALSE,
          sockets |-> execute_inside_throttle(kind, h, name, socks),
          log |-> <<"throttle_enter", "execute_inside_throttle", "updateNode",
                    "throttle_exit">>]

\* verify_prop whose except branch does not set bad_prop
verify_prop_no_flag(kind, h, socks, name) ==
    IF obj(h, name).exc # "none"
    THEN [bad_prop |-> FALSE, sockets |-> socks, log |-> <<"print_exc">>]
    ELSE [bad_prop |-> FALSE,
          sockets |-> execute_inside_throttle(kind, h, name, socks),
          log |-> Reconfigured]

\* verify_prop, the update callback of prop_name (name is the new value)
verify_prop(kind, h, socks, name) ==
    IF obj(h, name).exc # "none"
    THEN [bad_prop |-> TRUE, sockets |-> socks, log |-> <<"print_exc">>]
    ELSE [bad_prop |-> FALSE,
          sockets |-> execute_inside_throttle(kind, h, name, socks),
          log |-> Reconfigured]

PyNone == HostObject("NoneType")

\* sv_set(data), data being the outcome of wrap_output_data
publish(data, published) ==
    IF data.exc # "none" THEN [out_data |-> published, raised |-> data.exc]
    ELSE [out_data |-> data.val, raised |-> "none"]

process_get_obj(h, outputs, o, published) ==
    IF outputs = << >> THEN [out_data |-> published, raised |-> "IndexError"]
    ELSE IF o.exc # "none" THEN [out_data |-> published, raised |-> o.exc]
    ELSE publish(wrap_output_data(value_of(h, o.val)), published)

\* SvGetPropNodeMK2.process
process_get(h, outputs, name, published) ==
    process_get_obj(h, outputs, obj(h, name), published)

\* path[:-1]
all_but_last(path) == [path EXCEPT !.val = SubSeq(path.val, 1, Len(path.val) - 1)]

\* setattr or item assignment on the parent, by the kind of the last step
set_on_parent(h, parent, last, element) ==
    IF parent.exc # "none" THEN parent
    ELSE IF element.exc # "none" THEN element
    ELSE IF last.op = "attr"
         THEN host_setattr(h, parent.val, last.value, element.val)
         ELSE host_setitem(h, parent.val, last.value, element.val)

\* the heap once assign_data has changed the object in place
store_assigned(h, ref, assigned) ==
    IF assigned.exc # "none" THEN assigned
    ELSE Returned(store(h, ref, assigned.val))

\* the try of process without its branch for int, float and bpy_prop_array
write_through_in_place(h, path, ref, data) ==
    store_assigned(h, ref, assign_data(value_of(h, ref), data))

\* the body of the try of SvSetPropNodeMK2.process: the heap after it, or
\* the exception its except clause catches
write_through(h, path, ref, data) ==
    IF IsPyNumber(value_of(h, ref)) \/ value_of(h, ref).type = "bpy_prop_array"
    THEN set_on_parent(h, get_object(h, all_but_last(path)),
                       path.val[Len(path.val)], first_element(data))
    ELSE store_assigned(h, ref, assign_data(value_of(h, ref), data))

\* the except clause: print(err)
swallow(h, written) ==
    IF written.exc # "none"
    THEN [heap |-> h, raised |-> "none", log |-> <<"print", written.exc>>]
    ELSE [heap |-> written.val, raised |-> "none", log |-> <<"write">>]

escapes(h, e) == [heap |-> h, raised |-> e, log |-> << >>]

process_set_obj(h, inputs, path, ref, got) ==
    IF inputs = << >> THEN escapes(h, "IndexError")
    ELSE IF got.exc # "none" THEN escapes(h, got.exc)
    ELSE IF path.exc # "none" THEN escapes(h, path.exc)
    ELSE IF ref.exc # "none" THEN escapes(h, ref.exc)
    ELSE swallow(h, write_through(h, path, ref.val, got.val))

process_set_path(h, inputs, path, got) ==
    process_set_obj(h, inputs, path, get_object(h, path), got)

\* SvSetPropNodeMK2.process; got is the outcome of inputs[0].sv_get()
process_set(h, inputs, name, got) ==
    process_set_path(h, inputs, path_of(name), got)

(***************************************************************************)
(* Inputs                                                                  *)
(***************************************************************************)
\* values read by a get node elsewhere and fed to the set node
RoundTripValues ==
    {Vector(<<4, 5, 6>>), Color(<<2, 3, 4>>), Matrix(Translate4)}

\* what inputs[0].sv_get() returns
DataInputs ==
    {wrap_output_data(v).val : v \in RoundTripValues}
    \cup {Nested(PyInt(5)), Nested(PyTuple(<<1, 0, 0, 1>>)), PyList(<< >>)}

\* sv_get returns data, or raises when the socket has none
SvGetOutcomes ==
    {Returned(d) : d \in DataInputs}
    \cup {[exc |-> "SvNoDataError", none |-> FALSE, val |-> PyNone]}

Pieces ==
    {aliases[i].alias : i \in 1..Len(aliases)}
    \cup {bpy_dot, <<"b","p","y">>, <<".">>, <<"x">>}

RECURSIVE Concats(_)
Concats(n) ==
    IF n = 0 THEN {<< >>}
    ELSE Concats(n - 1) \cup {a \o b : a \in Concats(n - 1), b \in Pieces}

AliasInputs == Concats(MaxPieces)

RECURSIVE Expressions(_)
Expressions(depth) ==
    IF depth = 0 THEN {Name(<<"b","p","y">>)}
    ELSE LET inner == Expressions(depth - 1) IN
         inner
         \cup {Attribute(v, <<"x">>) : v \in inner}
         \cup {Subscript(v, sl) : v \in inner,
                 sl \in {Index(Num(0)), Index(Str(<<"k">>)), Index(Name(<<"i">>)), Slice}}
         \cup {Call(v) : v \in inner}

AstInputs == Expressions(MaxDepth)

NotCalled == [exc |-> "not called", none |-> FALSE, val |-> << >>]

(***************************************************************************)
(* The node: its properties are edited and the tree asks it to process     *)
(***************************************************************************)
InitNode ==
    /\ prop_name = << >>
    /\ bad_prop = FALSE
    /\ sockets = << >>
    /\ heap = InitHeap
    /\ last_op = "init"
    /\ log = << >>
    /\ raised = "none"
    /\ last_data = PyNone
    /\ out_data = PyNone
    /\ edited = FALSE
    /\ last_class = NoneType

InitPure ==
    /\ alias_in = << >>
    /\ alias_out = NotCalled
    /\ ast_in = Name(<< >>)
    /\ path_out = NotCalled

Init ==
    /\ variant \in {"get", "set"}
    /\ InitNode
    /\ InitPure

\* the socket type of the object name resolves to, None if it resolves to
\* none or has none
classification(h, name) == type_assesment(obj_value(h, name))

Edited(p, r, s_type) ==
    /\ prop_name' = p
    /\ bad_prop' = r.bad_prop
    /\ sockets' = r.sockets
    /\ log' = r.log
    /\ last_op' = "verify_prop"
    /\ raised' = "none"
    /\ last_data' = PyNone
    /\ edited' = TRUE
    /\ last_class' = IF s_type # NoneType THEN s_type ELSE last_class
    /\ UNCHANGED <<variant, heap, out_data, aliasVars, parseVars>>

\* prop_name is set to p: its update callback verify_prop runs
EditPropName(p) ==
    Edited(p, verify_prop(variant, heap, sockets, p), classification(heap, p))

GetProcessed(r) ==
    /\ variant = "get"
    /\ out_data' = r.out_data
    /\ raised' = r.raised
    /\ log' = IF r.raised = "none" THEN <<"sv_set">> ELSE << >>
    /\ last_op' = "process"
    /\ last_data' = PyNone
    /\ UNCHANGED <<variant, prop_name, bad_prop, sockets, heap, edited,
                   last_class, aliasVars, parseVars>>

\* the tree asks the get node for its output
GetProcess == GetProcessed(process_get(heap, sockets, prop_name, out_data))

SetProcessed(got, r) ==
    /\ variant = "set"
    /\ heap' = r.heap
    /\ raised' = r.raised
    /\ log' = r.log
    /\ last_data' = IF sockets = << >> THEN PyNone ELSE got.val
    /\ last_op' = "process"
    /\ UNCHANGED <<variant, prop_name, bad_prop, sockets, out_data, edited,
                   last_class, aliasVars, parseVars>>

\* the tree asks the set node to process
SetProcess(got) ==
    SetProcessed(got, process_set(heap, sockets, prop_name, got))

\* local_updateNode, the update callback of float_prop, int_prop and
\* color_prop of the set node: it calls process and nothing else
local_updateNode(h, inputs, name, got) == process_set(h, inputs, name, got)

LocalUpdateNode(got) ==
    SetProcessed(got, local_updateNode(heap, sockets, prop_name, got))

Next ==
    \/ \E p \in PathInputs : EditPropName(p)
    \/ GetProcess
    \/ \E got \in SvGetOutcomes : SetProcess(got)
    \/ \E got \in SvGetOutcomes : LocalUpdateNode(got)

Spec == Init /\ [][Next]_vars

(***************************************************************************)
(* apply_alias on its own                                                  *)
(***************************************************************************)
InitAlias ==
    /\ variant = "get"
    /\ InitNode
    /\ alias_in \in AliasInputs
    /\ alias_out = NotCalled
    /\ ast_in = Name(<< >>)
    /\ path_out = NotCalled

CallApplyAlias ==
    /\ alias_out = NotCalled
    /\ alias_out' = apply_alias(alias_in)
    /\ UNCHANGED <<nodeVars, alias_in, parseVars>>

NextAlias == CallApplyAlias

SpecAlias == InitAlias /\ [][NextAlias]_vars

(***************************************************************************)
(* parse_to_path on its own                                                *)
(***************************************************************************)
InitParse ==
    /\ variant = "get"
    /\ InitNode
    /\ alias_in = << >>
    /\ alias_out = NotCalled
    /\ ast_in \in AstInputs
    /\ path_out = NotCalled

CallParseToPath ==
    /\ path_out = NotCalled
    /\ path_out' = parse_to_path(ast_in)
    /\ UNCHANGED <<nodeVars, aliasVars, ast_in>>

NextParse == CallParseToPath

SpecParse == InitParse /\ [][NextParse]_vars

(***************************************************************************)
(* Properties                                                              *)
(***************************************************************************)
Positions(e) == {i \in 1..Len(log) : log[i] = e}
Before(a, b) == \A i \in Positions(a) : \A j \in Positions(b) : i < j

\* exactly one updateNode, after the reconfiguration and after the throttle
\* was released
OneUpdateAfterRelease ==
    /\ Cardinality(Positions("updateNode")) = 1
    /\ Cardinality(Positions("throttle_enter")) = 1
    /\ Cardinality(Positions("throttle_exit")) = 1
    /\ Cardinality(Positions("execute_inside_throttle")) = 1
    /\ Before("throttle_enter", "execute_inside_throttle")
    /\ Before("execute_inside_throttle", "throttle_exit")
    /\ Before("throttle_exit", "updateNode")

ResolvedEdit == last_op = "verify_prop" /\ obj(heap, prop_name).exc = "none"

\* C1 as stated: every edit whose path resolves ends with bad_prop cleared, the
\* node's single socket of the type the classifier returns for the resolved
\* object, and exactly one updateNode, emitted after the reconfiguration and
\* after the throttle is released.
C1_Original ==
    ResolvedEdit =>
        /\ ~bad_prop
        /\ Len(sockets) = 1
        /\ sockets[1].bl_idname = classification(heap, prop_name)
        /\ OneUpdateAfterRelease

\* C1 amended: every edit whose path resolves ends with bad_prop cleared and
\* exactly one updateNode, emitted after the reconfiguration and after the
\* throttle is released; when the classifier returns a socket type for the
\* resolved object, the node's single socket has that type.
C1_ResolvedEdit ==
    ResolvedEdit =>
        /\ ~bad_prop
        /\ OneUpdateAfterRelease
        /\ classification(heap, prop_name) # NoneType =>
              /\ Len(sockets) = 1
              /\ sockets[1].bl_idname = classification(heap, prop_name)

C1_Witness ==
    /\ ResolvedEdit
    /\ variant = "set"
    /\ classification(heap, prop_name) = "SvMatrixSocket"
    /\ Len(sockets) = 1
    /\ log = Reconfigured

\* C2: an edit whose path fails to parse or resolve sets bad_prop and stops:
\* the sockets are what they were, the throttle is not entered and no
\* updateNode is emitted; and after any edit bad_prop is set exactly when the
\* most recent edit failed to resolve.
C2_FailedEditStops ==
    [][ /\ (last_op' = "verify_prop" /\ obj(heap', prop_name').exc # "none") =>
              /\ bad_prop'
              /\ sockets' = sockets
              /\ \A i \in 1..Len(log') :
                    log'[i] \notin {"throttle_enter", "execute_inside_throttle",
                                    "throttle_exit", "updateNode"}
        /\ edited' => (bad_prop' <=> obj(heap', prop_name').exc # "none") ]_vars

C2_Witness ==
    /\ last_op = "verify_prop"
    /\ bad_prop
    /\ obj(heap, prop_name).exc = "KeyError"
    /\ Len(sockets) = 1
    /\ log = <<"print_exc">>

\* C3: no exception leaves process (of either node, or called by
\* local_updateNode), whatever the path, the sockets and the data.
C3_NothingEscapes == last_op = "process" => raised = "none"

\* C4: the socket data wrap_output_data produces for a Vector, a Color or a
\* Matrix, written by the set node's process onto a target of the same type,
\* is written and leaves the target equal to the value read.
C4_RoundTrip ==
    \A v \in RoundTripValues :
        ( /\ variant = "set" /\ last_op = "process" /\ raised = "none"
          /\ last_data = wrap_output_data(v).val
          /\ obj(heap, prop_name).exc = "none"
          /\ obj(heap, prop_name).val.sel = << >>
          /\ obj_value(heap, prop_name).type = v.type )
        => /\ log = <<"write">>
           /\ obj_value(heap, prop_name) = v

RECURSIVE Unsupported(_)
Unsupported(p) ==
    IF p.t = "Call" THEN TRUE
    ELSE IF p.t = "Attribute" THEN Unsupported(p.value)
    ELSE IF p.t = "Subscript" THEN
        \/ p.slice.t # "Index"
        \/ p.slice.value.t \notin {"Num", "Str"}
        \/ Unsupported(p.value)
    ELSE FALSE

\* C5: parse_to_path raises NameError for every expression that holds, at any
\* depth, a call, a subscript whose index is no number or string literal, or
\* a slice; it returns nothing for it.
C5_UnsupportedRaisesNameError ==
    (path_out # NotCalled /\ Unsupported(ast_in)) => path_out.exc = "NameError"

\* the string with the alias at its start, if any, replaced by its expansion
Prefixes(s) == {i \in 1..Len(aliases) : startswith(s, aliases[i].alias)}
Expansion(s) ==
    IF startswith(s, bpy_dot) \/ Prefixes(s) = {} THEN s
    ELSE LET i == CHOOSE k \in Prefixes(s) : \A j \in Prefixes(s) : k <= j IN
         aliases[i].expanded \o SubSeq(s, Len(aliases[i].alias) + 1, Len(s))

\* C6: when the string after alias expansion does not begin with "bpy.",
\* apply_alias raises NameError and returns nothing; so for the empty string,
\* for "bpy" and for a string that starts with no alias.
C6_NotBpyRaises ==
    (alias_out # NotCalled /\ ~startswith(Expansion(alias_in), bpy_dot))
        => alias_out = Raised("NameError")

C6_Witness ==
    /\ alias_in = <<"b","p","y">>
    /\ alias_out = Raised("NameError")

\* C7: apply_alias substitutes at most once, and only the alias at position
\* 0 by its expansion, the rest of the string kept as it is; a string that
\* begins with "bpy." is returned unchanged; the result is not expanded again.
C7_PrefixOnce ==
    alias_out # NotCalled =>
        /\ alias_out.exc = "none" => alias_out.val = Expansion(alias_in)
        /\ startswith(alias_in, bpy_dot) => alias_out = Returned(alias_in)
        /\ \A i \in 1..Len(aliases) :
              startswith(alias_in, aliases[i].alias) =>
                  alias_out = Returned(aliases[i].expanded
                      \o SubSeq(alias_in, Len(aliases[i].alias) + 1, Len(alias_in)))

C7_Witness ==
    /\ alias_in = <<"c","c">>
    /\ alias_out = Returned(<<"b","p","y",".","c","o","n","t","e","x","t","c">>)

\* the host takes element for a property holding target
Accepted(target, element) ==
    \/ target.type = "int" /\ element.type = "int"
    \/ target.type = "float" /\ element.type \in {"int", "float"}
    \/ /\ target.type = "bpy_prop_array"
       /\ HasComps(element)
       /\ Len(element.comps) = Len(target.comps)
       /\ target.of = "bool" => \A i \in 1..Len(element.comps) : element.comps[i] \in {0, 1}

\* what reads back from a property after element was assigned to it
SameValue(now, element) ==
    IF now.type = "bpy_prop_array" THEN now.comps = element.comps
    ELSE now.n = element.n

\* the property with every item the write is not about
Others(v, sel) ==
    IF sel = << >> THEN << >>
    ELSE [i \in (1..Len(v.comps)) \ {sel[1] + 1} |-> v.comps[i]]

\* C8: when the set node's path resolves to an int, a float or an array
\* property reached by an attribute or an index step, process sets that
\* attribute or item of the parent to data[0][0] (where the data has such an
\* element and the host takes it for the property) and changes nothing else.
C8_ScalarWrite ==
    [][ ( /\ variant = "set" /\ last_op' = "process"
          /\ sockets # << >>
          /\ last_data' # PyNone
          /\ obj(heap, prop_name).exc = "none"
          /\ obj_value(heap, prop_name).type \in {"int", "float", "bpy_prop_array"}
          /\ first_element(last_data').exc = "none"
          /\ Accepted(obj_value(heap, prop_name), first_element(last_data').val) )
        => /\ raised' = "none"
           /\ log' = <<"write">>
           /\ obj_value(heap', prop_name).type = obj_value(heap, prop_name).type
           /\ SameValue(obj_value(heap', prop_name), first_element(last_data').val)
           /\ \A id \in Properties \ {obj(heap, prop_name).val.id} : heap'[id] = heap[id]
           /\ Others(heap'[obj(heap, prop_name).val.id], obj(heap, prop_name).val.sel)
                = Others(heap[obj(heap, prop_name).val.id], obj(heap, prop_name).val.sel)
           /\ UNCHANGED <<prop_name, bad_prop, sockets>> ]_vars

C8_Witness ==
    /\ variant = "set" /\ last_op = "process" /\ log = <<"write">>
    /\ prop_name = <<"s","c","e","n","e",".","f","r","a","m","e","_","c","u","r","r","e","n","t">>
    /\ last_data = Nested(PyInt(5))
    /\ heap["frame_current"] = PyInt(5)
    /\ heap["location"] = Vector(<<5, 5, 6>>)
    /\ heap["color"].comps = <<1, 0, 0, 1>>

Unclassified(item) == item.type \notin DOMAIN types /\ ~is_probably_color(item)

\* C9: when an edited path resolves to an object whose exact type is not in
\* types and which is no color array, type_assesment returns None and the
\* edit leaves the sockets as they are: none created, replaced or re-bound,
\* use_prop unchanged.
C9_UnclassifiedKeepsSockets ==
    [][ ( /\ last_op' = "verify_prop"
          /\ obj(heap', prop_name').exc = "none"
          /\ Unclassified(obj_value(heap', prop_name')) )
        => /\ type_assesment(obj_value(heap', prop_name')) = NoneType
           /\ sockets' = sockets ]_vars

C9_Witness ==
    /\ ResolvedEdit
    /\ variant = "set"
    /\ obj_value(heap, prop_name).type = "bpy_prop_array"
    /\ Unclassified(obj_value(heap, prop_name))
    /\ Len(sockets) = 1
    /\ sockets[1].use_prop

\* C10: the node has at most one socket; it has one exactly when some edit
\* resolved to a classified type, the socket then has the type of the last
\* such edit, and no step removes it.
C10_OneSocket ==
    [][ /\ Len(sockets') <= 1
        /\ Len(sockets') >= Len(sockets)
        /\ (Len(sockets') = 1) <=> (last_class' # NoneType)
        /\ Len(sockets') = 1 => sockets'[1].bl_idname = last_class' ]_vars

C10_Witness ==
    /\ Len(sockets) = 1
    /\ sockets[1].bl_idname = "SvColorSocket"
    /\ last_class = "SvColorSocket"
    /\ bad_prop
    /\ last_op = "process"

====
